---- MODULE Spec2Model ----
(***************************************************************************)
(* Lease-based work distribution of the annotation run:                    *)
(*   app/llm_annotation/create_shards.py     (the planner)                 *)
(*   app/llm_annotation/annotation_worker.py (lease_one, heartbeat,        *)
(*                                            mark_completed, main)        *)
(* The Firestore task documents and the GCS bucket are the shared state;   *)
(* every worker process is a small program counter with its locals.        *)
(* Time is a shared integer clock counted in minutes.                      *)
(***************************************************************************)
EXTENDS Integers, Sequences, FiniteSets, TLC

\* ---------------------------------------------------------------- bounds
\* Length of the dataset, shard size and chunk size of the modelled run.
DatasetLen == 5
ShardSize == 3
ChunkSize == 2
\* settings.LEASE_MIN, scaled down to the model's clock.
LEASE_MIN == 1
\* The clock stops advancing here.
MaxClock == 4

\* The planner commits its batch when i is a multiple of this (400 in
\* create_shards.py, scaled down to the model's runs).
CommitEvery == 2

\* The longest prompt list and the largest base batch size of the calls of
\* generate_with_adaptive_bs that are followed.
MaxPrompts == 9
MaxBatch == 8

\* The largest number of members of a JSON object given to parse_json.
MaxMembers == 2

\* The window of lease_one's scan (.limit(25)).
ScanLimit == 25

\* settings.BATCH_SIZE.
BATCH_SIZE == 8

Workers == {"w1", "w2"}

\* Python's None for lease_owner; an optional timestamp is <<>> or <<t>>.
NoOwner == "None"
NoTime == <<>>
At(t) == <<t>>

VARIABLES
    tasks,       \* Firestore: doc id -> task document
    bucket,      \* GCS: the set of blob names written, as records
    clock,       \* datetime.now(timezone.utc), in minutes
    chunk_size,  \* settings.CHUNK_SIZE of the run
    pc,          \* where each worker process is in main()
    scan_at,     \* lease_one: now of line 174, the time of the scan
    cands,       \* lease_one: the candidates still to try, in scan order
    snap,        \* lease_one: the candidate of the last transaction run
    d2_done,     \* lease_one: chunk_done of d2 in the transaction that claimed
    shard_id,    \* main: the task the worker obtained
    first,       \* main: start_idx + chunks_done, the first idx of the range()
    idx,         \* main: the loop variable idx
    end_idx,     \* main: end_idx read from the shard
    inc,         \* main: len(records) of the chunk just uploaded
    prior,       \* history: what the bucket held for the task when it was leased
    beaten,      \* history: the blobs whose writer went on to heartbeat them
    last_claim,  \* history: per task, who claimed it last and when, until the
                 \* next mark_completed of the task
    planner,     \* create_shards.main: its position and locals (n, shards, i, batch)
    gen,         \* generate_with_adaptive_bs: its position and locals
    annot,       \* annotate_batch: its position, its locals and the metrics
    parse        \* parse_json: its argument and what it returned

\* The locals of one worker process.
locals == <<scan_at, cands, snap, d2_done, shard_id, first, idx, end_idx, inc, prior>>

\* The state of the workers and of the stores they share.
run == <<tasks, bucket, clock, chunk_size, pc, locals, beaten, last_claim>>

vars == <<run, planner, gen, annot, parse>>

\* ---------------------------------------------------------------- planner
CeilDiv(a, b) == (a + b - 1) \div b

Min(a, b) == IF a < b THEN a ELSE b

Max(a, b) == IF a > b THEN a ELSE b

\* create_shards.main: the document written for shard i (0-based) at time now.
PlanTaskEndExclusive(i, n, shard, chunk, now) ==
    LET start == i * shard
        end == Min((i + 1) * shard, n)
    IN [status |-> "PENDING",
        start_idx |-> start,
        end_idx |-> end,
        chunk_total |-> CeilDiv(end - start + 1, chunk),
        chunk_done |-> 0,
        lease_owner |-> NoOwner,
        lease_expires_at |-> NoTime,
        attempts |-> 0,
        updated_at |-> now]

PlanTaskChunkFloor(i, n, shard, chunk, now) ==
    LET start == i * shard
        end == Min((i + 1) * shard, n) - 1
    IN [status |-> "PENDING",
        start_idx |-> start,
        end_idx |-> end,
        chunk_total |-> (end - start + 1) \div chunk,
        chunk_done |-> 0,
        lease_owner |-> NoOwner,
        lease_expires_at |-> NoTime,
        attempts |-> 0,
        updated_at |-> now]

PlanTask(i, n, shard, chunk, now) ==
    LET start == i * shard
        end == Min((i + 1) * shard, n) - 1
    IN [status |-> "PENDING",
        start_idx |-> start,
        end_idx |-> end,
        chunk_total |-> CeilDiv(end - start + 1, chunk),
        chunk_done |-> 0,
        lease_owner |-> NoOwner,
        lease_expires_at |-> NoTime,
        attempts |-> 0,
        updated_at |-> now]

\* create_shards.main: all documents of the run, keyed by the number in
\* doc_id = "shard-%06d" % (i + 1).
PlanTasks(n, shard, chunk, now) ==
    [d \in 1..CeilDiv(n, shard) |-> PlanTask(d - 1, n, shard, chunk, now)]

\* create_shards.main, lines 25-51: the planner before its loop, for a dataset
\* of n records, SHARD_SIZE = shard and CHUNK_SIZE = chunk.
PlannerStartAtLeastOneShard(n, shard, chunk) ==
    [pc |-> "loop",
     n |-> n,
     SHARD_SIZE |-> shard,
     CHUNK_SIZE |-> chunk,
     shards |-> IF n = 0 THEN 1 ELSE CeilDiv(n, shard),
     i |-> 0,
     batch |-> <<>>]

PlannerStart(n, shard, chunk) ==
    [pc |-> "loop",
     n |-> n,
     SHARD_SIZE |-> shard,
     CHUNK_SIZE |-> chunk,
     shards |-> CeilDiv(n, shard),
     i |-> 0,
     batch |-> <<>>]

\* batch.commit(): the documents of the batch, written over what is stored.
Commit(stored, batch) ==
    [d \in DOMAIN stored \cup DOMAIN batch |->
        IF d \in DOMAIN batch THEN batch[d] ELSE stored[d]]

\* generate_with_adaptive_bs is not running.
GenIdle ==
    [pc |-> "idle", n |-> 0, base_bs |-> 0, bs |-> 0, i |-> 0, outputs |-> <<>>,
     oom_events |-> 0]

\* annotate_batch is not running; the process has counted no parse failure.
AnnotIdle ==
    [pc |-> "idle", texts |-> <<>>, out |-> <<>>, json_parse_failures |-> 0,
     before |-> <<>>]

\* parse_json is not running.
ParseIdle == [pc |-> "idle", text |-> <<>>, out |-> <<>>]

\* ---------------------------------------------------------------- lease_one
TaskIds == DOMAIN tasks

\* .where("status", "in", ["PENDING", "IN_PROGRESS"])
Unfinished == {t \in TaskIds : tasks[t].status \in {"PENDING", "IN_PROGRESS"}}

\* .order_by("updated_at"): ascending updated_at, ties by document name.
BeforeNewestFirst(a, b) ==
    \/ tasks[a].updated_at > tasks[b].updated_at
    \/ tasks[a].updated_at = tasks[b].updated_at /\ a < b

BeforeByName(a, b) == a < b

Before(a, b) ==
    \/ tasks[a].updated_at < tasks[b].updated_at
    \/ tasks[a].updated_at = tasks[b].updated_at /\ a < b

RECURSIVE Sorted(_)
Sorted(S) ==
    IF S = {} THEN <<>>
    ELSE LET m == CHOOSE a \in S : \A b \in S \ {a} : Before(a, b)
         IN <<m>> \o Sorted(S \ {m})

Take(s, k) == SubSeq(s, 1, Min(k, Len(s)))

\* The query of lines 176-181.
Candidates == Take(Sorted(Unfinished), ScanLimit)

\* Lines 184/192: the lease of document d counts as expired at time now.
ExpiredAtDeadline(d, now) ==
    \/ d.lease_expires_at = NoTime
    \/ d.lease_expires_at # NoTime /\ d.lease_expires_at[1] <= now

Expired(d, now) ==
    \/ d.lease_expires_at = NoTime
    \/ d.lease_expires_at # NoTime /\ d.lease_expires_at[1] < now

\* Lines 185/195: the test lease_one applies to a document.
ClaimableAnyUnfinished(d, now) == d.status \in {"PENDING", "IN_PROGRESS"}

Claimable(d, now) == d.status = "PENDING" \/ Expired(d, now)

\* Lines 196-207: the update of the transaction.
ClaimUpdateLeaseEndsNow(d, w, now) ==
    [d EXCEPT !.status = "IN_PROGRESS",
              !.lease_owner = w,
              !.lease_expires_at = At(now),
              !.updated_at = now,
              !.attempts = d.attempts + (IF d.status = "PENDING" THEN 1 ELSE 0)]

ClaimUpdateCountsEveryClaim(d, w, now) ==
    [d EXCEPT !.status = "IN_PROGRESS",
              !.lease_owner = w,
              !.lease_expires_at = At(now + LEASE_MIN),
              !.updated_at = now,
              !.attempts = d.attempts + 1]

ClaimUpdate(d, w, now) ==
    [d EXCEPT !.status = "IN_PROGRESS",
              !.lease_owner = w,
              !.lease_expires_at = At(now + LEASE_MIN),
              !.updated_at = now,
              !.attempts = d.attempts + (IF d.status = "PENDING" THEN 1 ELSE 0)]

\* Lines 219-226: the update of heartbeat.
HeartbeatUpdateNoProgress(d, w, now, n) ==
    [d EXCEPT !.lease_owner = w,
              !.lease_expires_at = At(now + LEASE_MIN),
              !.updated_at = now]

HeartbeatUpdateSetsProgress(d, w, now, n) ==
    [d EXCEPT !.lease_owner = w,
              !.lease_expires_at = At(now + LEASE_MIN),
              !.updated_at = now,
              !.chunk_done = n]

HeartbeatUpdateAdvancesStart(d, w, now, n) ==
    [d EXCEPT !.lease_owner = w,
              !.lease_expires_at = At(now + LEASE_MIN),
              !.updated_at = now,
              !.chunk_done = d.chunk_done + n,
              !.start_idx = d.start_idx + n]

HeartbeatUpdateCountsChunkSize(d, w, now, n) ==
    [d EXCEPT !.lease_owner = w,
              !.lease_expires_at = At(now + LEASE_MIN),
              !.updated_at = now,
              !.chunk_done = d.chunk_done + chunk_size]

HeartbeatUpdateCountsAttempt(d, w, now, n) ==
    [d EXCEPT !.lease_owner = w,
              !.lease_expires_at = At(now + LEASE_MIN),
              !.updated_at = now,
              !.chunk_done = d.chunk_done + n,
              !.attempts = d.attempts + 1]

HeartbeatUpdateKeepsUpdatedAt(d, w, now, n) ==
    [d EXCEPT !.lease_owner = w,
              !.lease_expires_at = At(now + LEASE_MIN),
              !.chunk_done = d.chunk_done + n]

HeartbeatUpdate(d, w, now, n) ==
    [d EXCEPT !.lease_owner = w,
              !.lease_expires_at = At(now + LEASE_MIN),
              !.updated_at = now,
              !.chunk_done = d.chunk_done + n]

\* Lines 230-237: the update of mark_completed.
CompletedUpdateClearsProgress(d, now) ==
    [d EXCEPT !.status = "COMPLETED",
              !.lease_owner = NoOwner,
              !.lease_expires_at = NoTime,
              !.updated_at = now,
              !.chunk_done = 0]

CompletedUpdateRequeues(d, now) ==
    [d EXCEPT !.status = "PENDING",
              !.lease_owner = NoOwner,
              !.lease_expires_at = NoTime,
              !.updated_at = now]

CompletedUpdate(d, now) ==
    [d EXCEPT !.status = "COMPLETED",
              !.lease_owner = NoOwner,
              !.lease_expires_at = NoTime,
              !.updated_at = now]

\* Lines 182-185: the candidates, in order, whose snapshot passes the test.
RECURSIVE SelectClaimable(_, _)
SelectClaimable(s, now) ==
    IF s = <<>> THEN <<>>
    ELSE (IF Claimable(tasks[Head(s)], now) THEN <<Head(s)>> ELSE <<>>)
         \o SelectClaimable(Tail(s), now)

\* ---------------------------------------------------------------- main
\* Line 275.
HiNextStart(i, end) == Min(i + chunk_size, end)

Hi(i, end) == Min(i + chunk_size - 1, end)

\* Line 295: the blob name, as its parts.
BlobName(t, w, lo, hi) == [task |-> t, worker |-> w, lo |-> lo, hi |-> hi]

\* Lines 297-299, if_generation_match=0: the upload goes through only when
\* the bucket holds no blob of that name.
UploadAlwaysAllowed(name, blobs) == TRUE

UploadAllowed(name, blobs) == name \notin blobs

\* The ranges of the blobs the bucket holds for task t.
RangesIn(blobs, t) == {<<b.lo, b.hi>> : b \in {x \in blobs : x.task = t}}

NoPrior == [written |-> {}, beaten |-> {}]

\* No worker has started and nothing has been written to the bucket.
InitWorkers ==
    /\ bucket = {}
    /\ clock = 0
    /\ pc = [w \in Workers |-> "idle"]
    /\ scan_at = [w \in Workers |-> 0]
    /\ cands = [w \in Workers |-> <<>>]
    /\ snap = [w \in Workers |-> 0]
    /\ d2_done = [w \in Workers |-> 0]
    /\ shard_id = [w \in Workers |-> 0]
    /\ first = [w \in Workers |-> 0]
    /\ idx = [w \in Workers |-> 0]
    /\ end_idx = [w \in Workers |-> 0]
    /\ inc = [w \in Workers |-> 0]
    /\ prior = [w \in Workers |-> NoPrior]
    /\ beaten = {}

\* The planner has run to its end for a dataset of n records and the workers
\* start.
InitRun(n, shard, chunk) ==
    /\ tasks = PlanTasks(n, shard, chunk, 0)
    /\ last_claim = [t \in DOMAIN tasks |-> <<>>]
    /\ chunk_size = chunk
    /\ InitWorkers
    /\ planner = [PlannerStart(n, shard, chunk) EXCEPT
                     !.pc = "done", !.i = CeilDiv(n, shard)]

\* The same, no generate_with_adaptive_bs call being under way.
InitWith(n, shard, chunk) ==
    /\ InitRun(n, shard, chunk)
    /\ gen = GenIdle
    /\ annot = AnnotIdle
    /\ parse = ParseIdle

Init == InitWith(DatasetLen, ShardSize, ChunkSize)

\* The locals a worker has when it is not working on a task.
Reset(w) ==
    /\ scan_at' = [scan_at EXCEPT ![w] = 0]
    /\ cands' = [cands EXCEPT ![w] = <<>>]
    /\ snap' = [snap EXCEPT ![w] = 0]
    /\ d2_done' = [d2_done EXCEPT ![w] = 0]
    /\ shard_id' = [shard_id EXCEPT ![w] = 0]
    /\ first' = [first EXCEPT ![w] = 0]
    /\ idx' = [idx EXCEPT ![w] = 0]
    /\ end_idx' = [end_idx EXCEPT ![w] = 0]
    /\ inc' = [inc EXCEPT ![w] = 0]
    /\ prior' = [prior EXCEPT ![w] = NoPrior]

\* Time passes.
Tick ==
    /\ clock < MaxClock
    /\ clock' = clock + 1
    /\ UNCHANGED <<tasks, bucket, chunk_size, pc, locals, beaten, last_claim>>
    /\ UNCHANGED <<planner, gen, annot, parse>>

\* lease_one, lines 174-185: the scan and the test of each snapshot; the
\* candidates that pass are the ones a transaction is run for, in order.
\* With none, lease_one returns None and main exits (lines 264-266).
lease_one_scan(w) ==
    /\ pc[w] = "idle"
    /\ LET todo == SelectClaimable(Candidates, clock)
       IN /\ cands' = [cands EXCEPT ![w] = todo]
          /\ pc' = [pc EXCEPT ![w] = IF todo = <<>> THEN "exited" ELSE "claiming"]
          /\ scan_at' = [scan_at EXCEPT ![w] = IF todo = <<>> THEN 0 ELSE clock]
    /\ UNCHANGED <<tasks, bucket, clock, chunk_size, snap, d2_done, shard_id,
                   first, idx, end_idx, inc, prior, beaten, last_claim>>
    /\ UNCHANGED <<planner, gen, annot, parse>>

\* lease_one, lines 187-213: the transaction for the next candidate. It reads
\* the document again; a claim ends lease_one, otherwise the loop goes on and
\* after the last candidate lease_one returns None and main exits.
lease_one_txn(w) ==
    /\ pc[w] = "claiming"
    /\ LET t == Head(cands[w])
           d2 == tasks[t]
       IN IF Claimable(d2, clock)
          THEN /\ tasks' = [tasks EXCEPT ![t] = ClaimUpdate(d2, w, clock)]
               /\ pc' = [pc EXCEPT ![w] = "leased"]
               /\ shard_id' = [shard_id EXCEPT ![w] = t]
               /\ d2_done' = [d2_done EXCEPT ![w] = d2.chunk_done]
               /\ scan_at' = [scan_at EXCEPT ![w] = 0]
               /\ cands' = [cands EXCEPT ![w] = <<>>]
               /\ snap' = [snap EXCEPT ![w] = 0]
               /\ prior' = [prior EXCEPT ![w] =
                               [written |-> RangesIn(bucket, t),
                                beaten |-> RangesIn(beaten, t)]]
               /\ last_claim' = [last_claim EXCEPT ![t] = <<w, clock>>]
          ELSE IF Tail(cands[w]) # <<>>
          THEN /\ cands' = [cands EXCEPT ![w] = Tail(cands[w])]
               /\ snap' = [snap EXCEPT ![w] = t]
               /\ UNCHANGED <<tasks, pc, scan_at, shard_id, d2_done, prior, last_claim>>
          ELSE /\ pc' = [pc EXCEPT ![w] = "exited"]
               /\ scan_at' = [scan_at EXCEPT ![w] = 0]
               /\ cands' = [cands EXCEPT ![w] = <<>>]
               /\ snap' = [snap EXCEPT ![w] = 0]
               /\ UNCHANGED <<tasks, shard_id, d2_done, prior, last_claim>>
    /\ UNCHANGED <<bucket, clock, chunk_size, first, idx, end_idx, inc, beaten>>
    /\ UNCHANGED <<planner, gen, annot, parse>>

\* Line 274: where the range() of a shard starts.
RangeStartFromZero(shard) == shard.start_idx

RangeStart(shard) == shard.start_idx + shard.chunk_done

\* main, lines 268-274: read the shard and enter the loop over its chunks,
\* or go straight to mark_completed when the range is empty.
main_read_shard(w) ==
    /\ pc[w] = "leased"
    /\ LET shard == tasks[shard_id[w]]
           i0 == RangeStart(shard)
       IN /\ first' = [first EXCEPT ![w] = i0]
          /\ idx' = [idx EXCEPT ![w] = i0]
          /\ end_idx' = [end_idx EXCEPT ![w] = shard.end_idx]
          /\ pc' = [pc EXCEPT ![w] = IF i0 > shard.end_idx THEN "completing" ELSE "chunk"]
    /\ UNCHANGED <<tasks, bucket, clock, chunk_size, scan_at, cands, snap,
                   d2_done, shard_id, inc, prior, beaten, last_claim>>
    /\ UNCHANGED <<planner, gen, annot, parse>>

\* main, lines 275-300: annotate the chunk and upload it with
\* if_generation_match=0; no blob of that name existed.
main_upload(w) ==
    /\ pc[w] = "chunk"
    /\ LET hi == Hi(idx[w], end_idx[w])
           name == BlobName(shard_id[w], w, idx[w], hi)
       IN /\ UploadAllowed(name, bucket)
          /\ bucket' = bucket \cup {name}
          /\ inc' = [inc EXCEPT ![w] = hi - idx[w] + 1]
    /\ pc' = [pc EXCEPT ![w] = "uploaded"]
    /\ UNCHANGED <<tasks, clock, chunk_size, scan_at, cands, snap, d2_done,
                   shard_id, first, idx, end_idx, prior, beaten, last_claim>>
    /\ UNCHANGED <<planner, gen, annot, parse>>

\* main, lines 297-299: a blob of that name exists, upload_from_string raises
\* PreconditionFailed, nothing catches it and the process ends.
main_upload_collision(w) ==
    /\ pc[w] = "chunk"
    /\ ~UploadAllowed(BlobName(shard_id[w], w, idx[w], Hi(idx[w], end_idx[w])), bucket)
    /\ pc' = [pc EXCEPT ![w] = "crashed"]
    /\ Reset(w)
    /\ UNCHANGED <<tasks, bucket, clock, chunk_size, beaten, last_claim>>
    /\ gen' = GenIdle
    /\ annot' = AnnotIdle
    /\ UNCHANGED <<planner, parse>>

\* main, lines 301-302 and the loop step: heartbeat, the chunk's out and
\* records are dropped, then the next idx or, after the last chunk, on to
\* mark_completed.
main_heartbeat(w) ==
    /\ pc[w] = "uploaded"
    /\ LET t == shard_id[w]
           next == idx[w] + chunk_size
       IN /\ tasks' = [tasks EXCEPT ![t] = HeartbeatUpdate(tasks[t], w, clock, inc[w])]
          /\ beaten' = beaten \cup
                 {BlobName(t, w, idx[w], Hi(idx[w], end_idx[w]))}
          /\ idx' = [idx EXCEPT ![w] = next]
          /\ pc' = [pc EXCEPT ![w] = IF next > end_idx[w] THEN "completing" ELSE "chunk"]
    /\ inc' = [inc EXCEPT ![w] = 0]
    /\ UNCHANGED <<bucket, clock, chunk_size, scan_at, cands, snap, d2_done,
                   shard_id, first, end_idx, prior, last_claim>>
    /\ annot' = [annot EXCEPT !.pc = "idle", !.texts = <<>>, !.out = <<>>]
    /\ UNCHANGED <<planner, gen, parse>>

\* main, line 306: mark_completed, then back to the top of the while loop.
main_mark_completed(w) ==
    /\ pc[w] = "completing"
    /\ tasks' = [tasks EXCEPT ![shard_id[w]] = CompletedUpdate(@, clock)]
    /\ last_claim' = [last_claim EXCEPT ![shard_id[w]] = <<>>]
    /\ pc' = [pc EXCEPT ![w] = "idle"]
    /\ Reset(w)
    /\ UNCHANGED <<bucket, clock, chunk_size, beaten>>
    /\ UNCHANGED <<planner, gen, annot, parse>>

\* The process dies where it is: a kill, or an exception main does not catch
\* (a store error, or annotate_batch raising: the out-of-memory error at batch
\* size 1, the TypeError of build_prompt called without its tokenizer).
CrashReleasesLease(w) ==
    /\ pc[w] \in {"claiming", "leased", "chunk", "uploaded", "completing"}
    /\ pc' = [pc EXCEPT ![w] = "crashed"]
    /\ Reset(w)
    /\ tasks' = [t \in DOMAIN tasks |->
                   IF tasks[t].status = "IN_PROGRESS" /\ tasks[t].lease_owner = w
                   THEN [tasks[t] EXCEPT !.status = "PENDING",
                                         !.lease_owner = NoOwner,
                                         !.lease_expires_at = NoTime]
                   ELSE tasks[t]]
    /\ UNCHANGED <<bucket, clock, chunk_size, beaten, last_claim>>
    /\ gen' = GenIdle
    /\ annot' = AnnotIdle
    /\ UNCHANGED <<planner, parse>>

Crash(w) ==
    /\ pc[w] \in {"claiming", "leased", "chunk", "uploaded", "completing"}
    /\ pc' = [pc EXCEPT ![w] = "crashed"]
    /\ Reset(w)
    /\ UNCHANGED <<tasks, bucket, clock, chunk_size, beaten, last_claim>>
    /\ gen' = GenIdle
    /\ annot' = AnnotIdle
    /\ UNCHANGED <<planner, parse>>

\* The process is started again with the same WORKER_ID.
Restart(w) ==
    /\ pc[w] \in {"crashed", "exited"}
    /\ pc' = [pc EXCEPT ![w] = "idle"]
    /\ UNCHANGED <<tasks, bucket, clock, chunk_size, locals, beaten, last_claim>>
    /\ UNCHANGED <<planner, gen, annot, parse>>

\* The run of the workers: the planner has finished and the steps inside
\* annotate_batch are not followed.
Next ==
    \/ Tick
    \/ \E w \in Workers : lease_one_scan(w)
    \/ \E w \in Workers : lease_one_txn(w)
    \/ \E w \in Workers : main_read_shard(w)
    \/ \E w \in Workers : main_upload(w)
    \/ \E w \in Workers : main_upload_collision(w)
    \/ \E w \in Workers : main_heartbeat(w)
    \/ \E w \in Workers : main_mark_completed(w)
    \/ \E w \in Workers : Crash(w)
    \/ \E w \in Workers : Restart(w)

Spec == Init /\ [][Next]_vars

\* Besides the run of Init, the end-to-end scenario: 100 records, shards of
\* 40, chunks of 25, every interleaving of the workers, each process started
\* once (a process that ended is not started again).
Scenario == chunk_size = 25

Restarted(w) == pc[w] \in {"crashed", "exited"} /\ pc'[w] = "idle"

InitResume == Init \/ InitWith(100, 40, 25)

NextResume == Next /\ (Scenario => \A w \in Workers : ~Restarted(w))

SpecResume == InitResume /\ [][NextResume]_vars

\* ---------------------------------------------------------------- the planner as a process
\* create_shards.main is started on a dataset of up to DatasetLen records, or
\* on the run of 100 records with shards of 40 and chunks of 25; no task
\* exists yet and no worker has started.
InitPlanner ==
    \E n \in 0..100 : \E shard \in 1..40 : \E chunk \in 1..25 :
        /\ \/ n <= DatasetLen /\ shard <= ShardSize /\ chunk <= ChunkSize
           \/ n = 100 /\ shard = 40 /\ chunk = 25
        /\ tasks = <<>>
        /\ last_claim = <<>>
        /\ chunk_size = chunk
        /\ InitWorkers
        /\ planner = PlannerStart(n, shard, chunk)
        /\ gen = GenIdle
        /\ annot = AnnotIdle
        /\ parse = ParseIdle

\* Lines 53-78: one turn of the loop. The document of shard i goes into the
\* batch; when i is a multiple of the commit interval the batch is committed
\* and a new one begun.
create_shards_set ==
    /\ planner.pc = "loop"
    /\ planner.i < planner.shards
    /\ LET i == planner.i
           doc == PlanTask(i, planner.n, planner.SHARD_SIZE, planner.CHUNK_SIZE, clock)
           batch == Commit(planner.batch, (i + 1) :> doc)
       IN IF i % CommitEvery = 0
          THEN /\ tasks' = Commit(tasks, batch)
               /\ planner' = [planner EXCEPT !.i = i + 1, !.batch = <<>>]
          ELSE /\ tasks' = tasks
               /\ planner' = [planner EXCEPT !.i = i + 1, !.batch = batch]
    /\ last_claim' = [t \in DOMAIN tasks' |-> <<>>]
    /\ UNCHANGED <<bucket, clock, chunk_size, pc, locals, beaten, gen, annot, parse>>

\* Line 80: after the loop the last batch is committed and main returns.
create_shards_commit ==
    /\ planner.pc = "loop"
    /\ planner.i = planner.shards
    /\ tasks' = Commit(tasks, planner.batch)
    /\ last_claim' = [t \in DOMAIN tasks' |-> <<>>]
    /\ planner' = [planner EXCEPT !.pc = "done", !.batch = <<>>]
    /\ UNCHANGED <<bucket, clock, chunk_size, pc, locals, beaten, gen, annot, parse>>

\* The planner process dies, or a store call of it raises: what is committed
\* stays, the batch in memory is lost.
create_shards_crash ==
    /\ planner.pc = "loop"
    /\ planner' = [planner EXCEPT !.pc = "crashed", !.batch = <<>>]
    /\ UNCHANGED <<run, gen, annot, parse>>

NextPlanner ==
    \/ Tick
    \/ create_shards_set
    \/ create_shards_commit
    \/ create_shards_crash

SpecPlanner == InitPlanner /\ [][NextPlanner]_vars

\* ---------------------------------------------------------------- the run without end
\* The worker that is healthy in the end; the processes of the other workers
\* have ended for good.
Healthy == "w1"

\* The distinct updated_at values stored that are older than v.
OlderStamps(v) == {tasks[t].updated_at : t \in TaskIds} \cap 0..(v - 1)

\* Time passes when the clock reads MaxClock: the reading is kept and every
\* time stored or held is moved one minute back instead. A lease expiry stops
\* at 0, which is in the past from then on; an updated_at stops where the
\* order of the stored updated_at values is kept.
TickOn ==
    /\ clock = MaxClock
    /\ tasks' = [t \in DOMAIN tasks |->
                   [tasks[t] EXCEPT
                      !.updated_at = Max(@ - 1, Cardinality(OlderStamps(@))),
                      !.lease_expires_at =
                          IF @ = NoTime THEN NoTime ELSE At(Max(@[1] - 1, 0))]]
    /\ scan_at' = [w \in Workers |-> Max(scan_at[w] - 1, 0)]
    /\ last_claim' = [t \in DOMAIN last_claim |->
                        IF last_claim[t] = <<>> THEN <<>>
                        ELSE <<last_claim[t][1], Max(last_claim[t][2] - 1, 0)>>]
    /\ UNCHANGED <<bucket, clock, chunk_size, pc, cands, snap, d2_done, shard_id,
                   first, idx, end_idx, inc, prior, beaten>>
    /\ UNCHANGED <<planner, gen, annot, parse>>

\* The healthy worker is killed only while the clock is below MaxClock.
CrashLive(w) == Crash(w) /\ clock < MaxClock

NextLive ==
    \/ Tick
    \/ TickOn
    \/ lease_one_scan(Healthy)
    \/ lease_one_txn(Healthy)
    \/ main_read_shard(Healthy)
    \/ main_upload(Healthy)
    \/ main_upload_collision(Healthy)
    \/ main_heartbeat(Healthy)
    \/ main_mark_completed(Healthy)
    \/ CrashLive(Healthy)
    \/ Restart(Healthy)

\* Time goes on, and the healthy worker's process takes its next step
\* whenever it has one and is started again whenever it has ended.
FairLive ==
    /\ WF_vars(Tick)
    /\ WF_vars(TickOn)
    /\ WF_vars(lease_one_scan(Healthy))
    /\ WF_vars(lease_one_txn(Healthy))
    /\ WF_vars(main_read_shard(Healthy))
    /\ WF_vars(main_upload(Healthy))
    /\ WF_vars(main_upload_collision(Healthy))
    /\ WF_vars(main_heartbeat(Healthy))
    /\ WF_vars(main_mark_completed(Healthy))
    /\ WF_vars(Restart(Healthy))

SpecLive == Init /\ [][NextLive]_vars /\ FairLive

\* ---------------------------------------------------------------- generate_with_adaptive_bs
\* Lines 106-108: the locals at the start of a call with n prompts.
GenStart(n, base_bs) ==
    [pc |-> "loop", n |-> n, base_bs |-> base_bs, bs |-> base_bs, i |-> 0,
     outputs |-> <<>>, oom_events |-> 0]

\* Line 110.
GenTake(bs, n, i) == Min(bs, n - i)

\* Lines 111-119: pipe on prompts[i : i + take] gives one output per prompt of
\* the batch, in order; an output is named by the position of its prompt.
PipeOut(i, take) == [k \in 1..take |-> i + k - 1]

\* Line 121.
AdvanceByOne(i, take) == i + 1

Advance(i, take) == i + take

\* Lines 122-123.
GrowUncapped(bs, base_bs) == IF bs < base_bs THEN bs * 2 ELSE bs

Grow(bs, base_bs) == IF bs < base_bs THEN Min(base_bs, bs * 2) ELSE bs

\* Line 132.
Shrink(bs) == Max(1, bs \div 2)

\* A call of generate_with_adaptive_bs on a list of up to MaxPrompts prompts
\* with a base batch size of 1 to MaxBatch; the run of the workers has not
\* begun.
InitGen ==
    \E n \in 0..MaxPrompts : \E base_bs \in 1..MaxBatch :
        /\ InitRun(DatasetLen, ShardSize, ChunkSize)
        /\ gen = GenStart(n, base_bs)
        /\ annot = AnnotIdle
        /\ parse = ParseIdle

\* Lines 109-123: a turn of the loop in which pipe succeeds.
gen_pipe_ok ==
    /\ gen.pc = "loop"
    /\ gen.i < gen.n
    /\ LET take == GenTake(gen.bs, gen.n, gen.i)
       IN gen' = [gen EXCEPT !.outputs = @ \o PipeOut(gen.i, take),
                             !.i = Advance(@, take),
                             !.bs = Grow(@, gen.base_bs)]
    /\ UNCHANGED <<run, planner, annot, parse>>

\* Lines 109-135: a turn of the loop in which pipe raises OutOfMemoryError.
\* The batch size is halved; when that gives 1 the error is raised again.
gen_pipe_oom ==
    /\ gen.pc = "loop"
    /\ gen.i < gen.n
    /\ gen' = [gen EXCEPT !.oom_events = @ + 1,
                          !.bs = Shrink(@),
                          !.pc = IF Shrink(gen.bs) = 1 THEN "raised" ELSE "loop"]
    /\ UNCHANGED <<run, planner, annot, parse>>

\* Lines 109 and 136: no prompt is left and the outputs are returned.
gen_return ==
    /\ gen.pc = "loop"
    /\ gen.i >= gen.n
    /\ gen' = [gen EXCEPT !.pc = "returned"]
    /\ UNCHANGED <<run, planner, annot, parse>>

\* Main line 279 and annotate_batch lines 162-164: the call for the next
\* chunk, after the call before has returned.
gen_call ==
    /\ gen.pc = "returned"
    /\ \E n \in 0..MaxPrompts : \E base_bs \in 1..MaxBatch :
          gen' = GenStart(n, base_bs)
    /\ UNCHANGED <<run, planner, annot, parse>>

NextGen ==
    \/ gen_pipe_ok
    \/ gen_pipe_oom
    \/ gen_return
    \/ gen_call

SpecGen == InitGen /\ [][NextGen]_vars

\* ---------------------------------------------------------------- parse_json
\* A text is a sequence of tokens: a newline, a run of other characters
\* without braces or backticks, "```", "```json", "{", "}", or the members of
\* an object written out ("joy": 5, "sadness": 12, ...).
\* Line 86: the keys parse_json reads.
Keys == {"joy", "sadness", "anger", "fear", "love", "surprise"}

\* The keys an object may have: those six and one that parse_json ignores.
Names == Keys \cup {"other"}

\* The integer values tried: the ends of [1,10] and one value beyond each.
JsonInts == {-1, 1, 10, 12}

Absent == [kind |-> "absent", n |-> 0]
JsonNull == [kind |-> "null", n |-> 0]
JsonInt(n) == [kind |-> "int", n |-> n]

NoMembers == [k \in Names |-> Absent]

Tok(kind) == [kind |-> kind, members |-> NoMembers]
Members(f) == [kind |-> "members", members |-> f]

\* The member lists with at most MaxMembers members, each an integer or null.
MemberLists ==
    UNION {{[k \in Names |-> IF k \in S THEN g[k] ELSE Absent] :
               g \in [S -> {JsonNull} \cup {JsonInt(n) : n \in JsonInts}]} :
           S \in {T \in SUBSET Names : Cardinality(T) <= MaxMembers}}

\* What may stand before and after the braces.
Wraps ==
    {<<>>} \cup {<<Tok(k)>> : k \in {"nl", "word", "fence", "fencejson"}}

Texts ==
    {pre \o mid \o post :
        pre \in Wraps, post \in Wraps,
        mid \in {<<>>, <<Tok("lbrace")>>, <<Tok("rbrace")>>,
                 <<Tok("rbrace"), Tok("lbrace")>>}
                \cup {<<Tok("lbrace"), Members(f), Tok("rbrace")>> : f \in MemberLists}
                \cup {<<Members(f)>> : f \in MemberLists}}

\* str.strip(), lines 78 and 79: whitespace at both ends goes.
RECURSIVE Strip(_)
Strip(t) ==
    IF t = <<>> THEN t
    ELSE IF Head(t).kind = "nl" THEN Strip(Tail(t))
    ELSE IF t[Len(t)].kind = "nl" THEN Strip(SubSeq(t, 1, Len(t) - 1))
    ELSE t

\* Line 79, re.MULTILINE: position i of t is the start, the end of a line.
LineStart(t, i) == i = 1 \/ t[i - 1].kind = "nl"
LineEnd(t, i) == i = Len(t) \/ t[i + 1].kind = "nl"

\* Line 79: "^```(?:json)?" matches a fence at the start of a line, with the
\* word json when it follows; "```$" matches a bare fence at the end of a line.
FenceMatch(t, i) ==
    \/ t[i].kind \in {"fence", "fencejson"} /\ LineStart(t, i)
    \/ t[i].kind = "fence" /\ LineEnd(t, i)

\* The tokens of t from position i on whose position is not in S.
RECURSIVE Without(_, _, _)
Without(t, i, S) ==
    IF i > Len(t) THEN <<>>
    ELSE (IF i \in S THEN <<>> ELSE <<t[i]>>) \o Without(t, i + 1, S)

\* Line 79: re.sub(..., "", t).
Unfence(t) == Without(t, 1, {i \in 1..Len(t) : FenceMatch(t, i)})

\* Line 80: re.search(r"\{.*\}", t, re.DOTALL), the match from the first "{"
\* to the last "}" after it; <<>> when there is none.
Search(t) ==
    LET opens == {i \in 1..Len(t) : t[i].kind = "lbrace"}
        closes == {i \in 1..Len(t) : t[i].kind = "rbrace"}
    IN IF opens = {} THEN <<>>
       ELSE LET lo == CHOOSE i \in opens : \A j \in opens : i <= j
                after == {j \in closes : j > lo}
            IN IF after = {} THEN <<>>
               ELSE SubSeq(t, lo, CHOOSE j \in after : \A k \in after : k <= j)

NoSpace(t) == SelectSeq(t, LAMBDA x : x.kind # "nl")

\* Line 84: json.loads of the match: <<obj>> when it is an object, <<>> when
\* json.loads raises.
Loads(m) ==
    LET inner == NoSpace(SubSeq(m, 2, Len(m) - 1))
    IN IF inner = <<>> THEN <<NoMembers>>
       ELSE IF Len(inner) = 1 /\ inner[1].kind = "members" THEN <<inner[1].members>>
       ELSE <<>>

\* Line 87: obj.get(k, 1).
Get(obj, k) == IF obj[k] = Absent THEN JsonInt(1) ELSE obj[k]

\* Line 88: max(1, min(10, v)).
ClampUpperOnly(v) == Min(10, v)

Clamp(v) == Max(1, Min(10, v))

\* Lines 77-91.
ParseJson(text) ==
    LET m == Search(Strip(Unfence(Strip(text))))
    IN IF m = <<>> THEN <<>>
       ELSE LET obj == Loads(m)
            IN IF obj = <<>> THEN <<>>
               ELSE IF \E k \in Keys : Get(obj[1], k).kind # "int" THEN <<>>
               ELSE <<[k \in Keys |-> Clamp(Get(obj[1], k).n)]>>

InitParse ==
    /\ InitRun(DatasetLen, ShardSize, ChunkSize)
    /\ gen = GenIdle
    /\ annot = AnnotIdle
    /\ \E text \in Texts : parse = [pc |-> "called", text |-> text, out |-> <<>>]

parse_json ==
    /\ parse.pc = "called"
    /\ parse' = [parse EXCEPT !.pc = "returned", !.out = ParseJson(parse.text)]
    /\ UNCHANGED <<run, planner, gen, annot>>

NextParse == parse_json

SpecParse == InitParse /\ [][NextParse]_vars

\* ---------------------------------------------------------------- annotate_batch
\* Line 158: the ids of the records of ds[idx : hi + 1]; a record is named by
\* its index in the dataset.
Ids(lo, hi) == [k \in 1..(hi - lo + 1) |-> lo + k - 1]

\* The completions pipe may give for a prompt: an object with values beyond
\* [1,10], the same inside a code fence, text that is no JSON, and an object
\* one of whose values is null.
Responses ==
    LET obj == Members([NoMembers EXCEPT !["joy"] = JsonInt(12),
                                         !["fear"] = JsonInt(-1)])
        bad == Members([NoMembers EXCEPT !["joy"] = JsonNull])
    IN {<<Tok("lbrace"), obj, Tok("rbrace")>>,
        <<Tok("fencejson"), Tok("nl"), Tok("lbrace"), obj, Tok("rbrace"),
          Tok("nl"), Tok("fence")>>,
        <<Tok("word")>>,
        <<Tok("lbrace"), bad, Tok("rbrace")>>}

\* Line 167: parse_json on the text of every output.
ParseAll(texts) == [k \in 1..Len(texts) |-> ParseJson(texts[k])]

\* Line 168: the outputs that are None.
Failures(outputs) == Cardinality({k \in 1..Len(outputs) : outputs[k] = <<>>})

\* Line 169: list(zip(ids, outputs)).
ZipParsed(ids, outputs) ==
    LET ok == SelectSeq([k \in 1..Min(Len(ids), Len(outputs)) |-> k],
                        LAMBDA k : outputs[k] # <<>>)
    IN [j \in 1..Len(ok) |-> [id |-> ids[ok[j]], scores |-> outputs[ok[j]]]]

Zip(ids, outputs) ==
    [k \in 1..Min(Len(ids), Len(outputs)) |-> [id |-> ids[k], scores |-> outputs[k]]]

\* The worker is at the top of the loop body with no call under way.
AtChunk(w) == pc[w] = "chunk" /\ annot.pc = "idle" /\ gen = GenIdle

\* The process of w ends on an exception raised in the loop body.
Dies(w) ==
    /\ pc' = [pc EXCEPT ![w] = "crashed"]
    /\ Reset(w)
    /\ gen' = GenIdle
    /\ annot' = AnnotIdle
    /\ UNCHANGED <<tasks, bucket, clock, chunk_size, beaten, last_claim>>
    /\ UNCHANGED <<planner, parse>>

\* main line 279 and annotate_batch lines 157-164: the prompts of the chunk
\* are built, by a build_prompt that takes (title, text, comments) as the
\* test's stand-in does, and generate_with_adaptive_bs is entered.
annotate_call(w) ==
    /\ AtChunk(w)
    /\ annot' = [annot EXCEPT !.pc = "generating",
                              !.before = <<tasks[shard_id[w]].chunk_done>>]
    /\ gen' = GenStart(Hi(idx[w], end_idx[w]) - idx[w] + 1, BATCH_SIZE)
    /\ UNCHANGED <<run, planner, parse>>

\* Line 161 with build_prompt as defined at line 61: the call gives three
\* arguments to a function of four, TypeError, and the process ends.
annotate_prompt_raises(w) ==
    /\ AtChunk(w)
    /\ Dies(w)

\* Lines 134-135 seen from main: generate_with_adaptive_bs re-raises the
\* OutOfMemoryError, nothing catches it and the process ends.
annotate_gen_raises_after_upload(w) ==
    /\ pc[w] = "chunk"
    /\ annot.pc = "generating"
    /\ gen.pc = "raised"
    /\ pc' = [pc EXCEPT ![w] = "crashed"]
    /\ Reset(w)
    /\ gen' = GenIdle
    /\ annot' = AnnotIdle
    /\ bucket' = bucket \cup
           {BlobName(shard_id[w], w, idx[w], Hi(idx[w], end_idx[w]))}
    /\ UNCHANGED <<tasks, clock, chunk_size, beaten, last_claim>>
    /\ UNCHANGED <<planner, parse>>

annotate_gen_raises(w) ==
    /\ pc[w] = "chunk"
    /\ annot.pc = "generating"
    /\ gen.pc = "raised"
    /\ Dies(w)

\* Lines 165-170: the outputs are parsed, the failures counted and the pairs
\* returned to main.
annotate_parse(w) ==
    /\ pc[w] = "chunk"
    /\ annot.pc = "generating"
    /\ gen.pc = "returned"
    /\ \E texts \in [1..Len(gen.outputs) -> Responses] :
          LET outputs == ParseAll(texts)
          IN annot' = [annot EXCEPT
                 !.pc = "returned",
                 !.texts = texts,
                 !.out = Zip(Ids(idx[w], Hi(idx[w], end_idx[w])), outputs),
                 !.json_parse_failures = @ + Failures(outputs)]
    /\ gen' = GenIdle
    /\ UNCHANGED <<run, planner, parse>>

\* main, lines 281-300: the records of the pairs are uploaded with
\* if_generation_match=0; no blob of that name existed.
main_upload_records(w) ==
    /\ pc[w] = "chunk"
    /\ annot.pc = "returned"
    /\ LET name == BlobName(shard_id[w], w, idx[w], Hi(idx[w], end_idx[w]))
       IN /\ UploadAllowed(name, bucket)
          /\ bucket' = bucket \cup {name}
    /\ inc' = [inc EXCEPT ![w] = Len(annot.out)]
    /\ pc' = [pc EXCEPT ![w] = "uploaded"]
    /\ UNCHANGED <<tasks, clock, chunk_size, scan_at, cands, snap, d2_done,
                   shard_id, first, idx, end_idx, prior, beaten, last_claim>>
    /\ UNCHANGED <<planner, gen, annot, parse>>

\* main, lines 297-299, after annotate_batch returned: the blob exists.
main_upload_records_collision(w) ==
    /\ annot.pc = "returned"
    /\ main_upload_collision(w)

\* One worker; every chunk goes through annotate_batch,
\* generate_with_adaptive_bs and parse_json.
NextChunk ==
    \/ Tick
    \/ lease_one_scan(Healthy)
    \/ lease_one_txn(Healthy)
    \/ main_read_shard(Healthy)
    \/ annotate_call(Healthy)
    \/ annotate_prompt_raises(Healthy)
    \/ gen_pipe_ok
    \/ gen_pipe_oom
    \/ gen_return
    \/ annotate_gen_raises(Healthy)
    \/ annotate_parse(Healthy)
    \/ main_upload_records(Healthy)
    \/ main_upload_records_collision(Healthy)
    \/ main_heartbeat(Healthy)
    \/ main_mark_completed(Healthy)
    \/ Crash(Healthy)
    \/ Restart(Healthy)

SpecChunk == Init /\ [][NextChunk]_vars

\* ---------------------------------------------------------------- properties
RangeLen(d) == d.end_idx - d.start_idx + 1

\* Worker w is inside the loop over the chunks of task t, or about to call
\* mark_completed for it.
InLoop(w, t) == pc[w] \in {"chunk", "uploaded", "completing"} /\ shard_id[w] = t

\* Document d is IN_PROGRESS under a lease that ends after time now.
LiveLease(d, now) ==
    /\ d.status = "IN_PROGRESS"
    /\ d.lease_expires_at # NoTime
    /\ d.lease_expires_at[1] > now

\* Document d is IN_PROGRESS under a lease that ended before time now.
DeadLease(d, now) ==
    /\ d.status = "IN_PROGRESS"
    /\ d.lease_expires_at # NoTime
    /\ d.lease_expires_at[1] < now

\* This step is worker w running the transaction of lease_one.
TxnStep(w) ==
    /\ pc[w] = "claiming"
    /\ pc'[w] \in {"claiming", "leased", "exited"}
    /\ cands'[w] # cands[w]

\* C1: for every task, at most one worker is inside the chunk loop of the
\* task (uploading, heartbeating or about to call mark_completed).
C1_OneActiveWorker ==
    \A t \in TaskIds : Cardinality({w \in Workers : InLoop(w, t)}) <= 1

\* C2: a transaction of lease_one that finds its candidate IN_PROGRESS under
\* a lease that ends after the current time does not return the task and
\* leaves every task document as it is, whatever the scan had read.
C2_LiveLeaseNotClaimed ==
    [][\A w \in Workers :
          (TxnStep(w) /\ LiveLease(tasks[Head(cands[w])], clock))
          => /\ tasks' = tasks
             /\ pc'[w] # "leased"
             /\ shard_id'[w] = shard_id[w]]_vars

\* A worker stands in lease_one after a transaction on task t gave no claim,
\* t being held by another worker under a live lease and never heartbeated.
C2_Witness ==
    \E w \in Workers : \E t \in TaskIds :
        /\ pc[w] = "claiming"
        /\ snap[w] = t
        /\ LiveLease(tasks[t], clock)
        /\ tasks[t].lease_owner # w
        /\ tasks[t].chunk_done = 0

Covered(t) ==
    {i \in tasks[t].start_idx..tasks[t].end_idx :
        \E b \in bucket : b.task = t /\ b.lo <= i /\ i <= b.hi}

\* C4: a COMPLETED task has every index of [start_idx, end_idx] in a blob
\* that was written for it.
C4_CompletedIsCovered ==
    \A t \in TaskIds :
        tasks[t].status = "COMPLETED"
        => Covered(t) = tasks[t].start_idx..tasks[t].end_idx

\* C5: once a task is COMPLETED its status never changes again.
C5_CompletedIsTerminal ==
    [][\A t \in TaskIds :
          tasks[t].status = "COMPLETED" => tasks'[t].status = "COMPLETED"]_vars

\* C6: chunk_done never exceeds the length of the task's range.
C6_DoneWithinRange ==
    \A t \in TaskIds : tasks[t].chunk_done <= RangeLen(tasks[t])

\* C7: a COMPLETED task has chunk_done equal to the length of its range.
C7_CompletedHasFullCount ==
    \A t \in TaskIds :
        tasks[t].status = "COMPLETED" => tasks[t].chunk_done = RangeLen(tasks[t])

\* C8: a worker that claimed a task starts its loop at start_idx plus the
\* stored chunk_done, never below start_idx plus the chunk_done the task had
\* when it was claimed, and the first blob it uploads starts there; in the run
\* of 100 records with shards of 40 and chunks of 25, the worker that claims
\* the first task at chunk_done = 25, the other worker having heartbeated
\* [0,24] and nothing more, starts at index 25.
C8_ResumesAtChunkDone ==
    \A w \in Workers :
        pc[w] \in {"chunk", "uploaded", "completing"}
        => LET d == tasks[shard_id[w]]
           IN /\ first[w] >= d.start_idx + d2_done[w]
              /\ first[w] <= d.start_idx + d.chunk_done
              /\ idx[w] >= first[w]
              /\ (pc[w] = "uploaded" /\ idx[w] = first[w])
                 => BlobName(shard_id[w], w, first[w], Hi(first[w], end_idx[w])) \in bucket
              /\ (/\ Scenario
                  /\ shard_id[w] = 1
                  /\ d2_done[w] = 25
                  /\ \A v \in Workers \ {w} : BlobName(1, v, 25, 39) \notin beaten)
                 => first[w] = 25

\* In the scenario the first worker heartbeated [0,24] and died; the second
\* has claimed the first task at chunk_done = 25 and uploaded [25,39] as its
\* first blob of the task.
C8_Witness ==
    \E w \in Workers : \E v \in Workers \ {w} :
        /\ Scenario
        /\ pc[v] = "crashed"
        /\ BlobName(1, v, 0, 24) \in beaten
        /\ pc[w] = "uploaded"
        /\ shard_id[w] = 1
        /\ d2_done[w] = 25
        /\ idx[w] = 25
        /\ {b \in bucket : b.task = 1 /\ b.worker = w} = {BlobName(1, w, 25, 39)}

\* The chunk ranges worker w has uploaded in its current pass over its task.
PassRanges(w) ==
    {<<i, Hi(i, end_idx[w])>> :
        i \in {j \in first[w]..end_idx[w] :
                  /\ (j - first[w]) % chunk_size = 0
                  /\ j < idx[w] \/ (j = idx[w] /\ pc[w] = "uploaded")}}

Overlap(r, s) == r[1] <= s[2] /\ s[1] <= r[2]

\* The ranges of the pass of w that share an index with a range of S.
Redone(w, S) == {r \in PassRanges(w) : \E s \in S : Overlap(r, s)}

\* C9: a worker that claimed a task processes again at most one chunk range
\* that had a blob when it claimed, and none that had been heartbeated by then.
C9_AtMostOneChunkRedone ==
    \A w \in Workers :
        pc[w] \in {"chunk", "uploaded", "completing"}
        => /\ Cardinality(Redone(w, prior[w].written)) <= 1
           /\ Redone(w, prior[w].beaten) = {}

\* The previous owner heartbeated one chunk, uploaded the next and died; the
\* new owner skipped the first and has uploaded the second again.
C9_Witness ==
    \E w \in Workers : \E v \in Workers \ {w} : \E t \in TaskIds :
        /\ pc[v] = "crashed"
        /\ pc[w] = "uploaded"
        /\ shard_id[w] = t
        /\ \E b \in beaten : b.task = t /\ b.worker = v /\ b.hi < idx[w]
        /\ BlobName(t, v, idx[w], Hi(idx[w], end_idx[w])) \in bucket \ beaten
        /\ <<idx[w], Hi(idx[w], end_idx[w])>> \in prior[w].written
        /\ Cardinality(Redone(w, prior[w].written)) = 1

\* The tasks a lease_one starting now would run its transaction for.
Offered ==
    LET todo == SelectClaimable(Candidates, clock)
    IN {todo[i] : i \in 1..Len(todo)}

\* C10: an IN_PROGRESS task is claimable by lease_one exactly when more than
\* LEASE_MIN has passed since its last claim or heartbeat (its updated_at),
\* not before.
C10_ClaimableAfterLease ==
    \A t \in TaskIds :
        tasks[t].status = "IN_PROGRESS"
        => /\ Claimable(tasks[t], clock) <=> clock > tasks[t].updated_at + LEASE_MIN
           /\ t \in Offered <=> clock > tasks[t].updated_at + LEASE_MIN

\* The owner of an IN_PROGRESS task died, the lease ran out a minute ago and
\* another worker's lease_one has just scanned and holds the task as its next
\* candidate.
C10_Witness ==
    \E w \in Workers : \E t \in TaskIds :
        /\ tasks[t].status = "IN_PROGRESS"
        /\ tasks[t].lease_owner \in Workers \ {w}
        /\ pc[tasks[t].lease_owner] = "crashed"
        /\ clock = tasks[t].updated_at + LEASE_MIN + 1
        /\ pc[w] = "claiming"
        /\ scan_at[w] = clock
        /\ Head(cands[w]) = t

\* The dataset indexes inside the range of some stored task.
InSomeRange == UNION {tasks[d].start_idx..tasks[d].end_idx : d \in DOMAIN tasks}

\* C13: when the planner has finished on N records with shard size S, there
\* are exactly ceil(N/S) tasks, task i (0-based) has start_idx = i*S and
\* end_idx = min((i+1)*S, N) - 1, every range is non-empty, no two ranges
\* share an index and together they are exactly {0, ..., N-1}.
C13_PlannerPartitions ==
    planner.pc = "done"
    => LET N == planner.n
           S == planner.SHARD_SIZE
       IN /\ DOMAIN tasks = 1..Cardinality({k \in 0..N : k * S < N})
          /\ \A d \in DOMAIN tasks :
                /\ tasks[d].start_idx = (d - 1) * S
                /\ tasks[d].end_idx = (IF d * S < N THEN d * S ELSE N) - 1
                /\ tasks[d].start_idx <= tasks[d].end_idx
          /\ \A a \in DOMAIN tasks : \A b \in DOMAIN tasks \ {a} :
                \/ tasks[a].end_idx < tasks[b].start_idx
                \/ tasks[b].end_idx < tasks[a].start_idx
          /\ InSomeRange = 0..(N - 1)

\* The planner has finished on 5 records with shards of 2: three tasks, the
\* last one of a single record.
C13_Witness ==
    /\ planner.pc = "done"
    /\ planner.n = 5
    /\ planner.SHARD_SIZE = 2
    /\ Len(tasks) = 3
    /\ tasks[3].start_idx = 4
    /\ tasks[3].end_idx = 4

\* C14: every task the planner has committed has chunk_total equal to the
\* length of its range divided by the chunk size, rounded up; on 100 records
\* with shards of 40 and chunks of 25 the finished planner leaves exactly the
\* tasks [0,39], [40,79], [80,99] with chunk_total 2, 2, 1.
C14_ChunkTotal ==
    /\ \A d \in DOMAIN tasks :
          LET len == tasks[d].end_idx - tasks[d].start_idx + 1
              C == planner.CHUNK_SIZE
          IN /\ (tasks[d].chunk_total - 1) * C < len
             /\ len <= tasks[d].chunk_total * C
    /\ (planner.pc = "done" /\ planner.n = 100 /\ planner.SHARD_SIZE = 40
                            /\ planner.CHUNK_SIZE = 25)
       => /\ Len(tasks) = 3
          /\ <<tasks[1].start_idx, tasks[1].end_idx, tasks[1].chunk_total>> = <<0, 39, 2>>
          /\ <<tasks[2].start_idx, tasks[2].end_idx, tasks[2].chunk_total>> = <<40, 79, 2>>
          /\ <<tasks[3].start_idx, tasks[3].end_idx, tasks[3].chunk_total>> = <<80, 99, 1>>

\* The planner has finished on the run of 100 records with shards of 40 and
\* chunks of 25 and its three tasks are stored.
C14_Witness ==
    /\ planner.pc = "done"
    /\ planner.n = 100
    /\ planner.SHARD_SIZE = 40
    /\ planner.CHUNK_SIZE = 25
    /\ DOMAIN tasks = {1, 2, 3}

\* C15: when the planner has died between two of its commits, the stored
\* tasks do not cover a part of {0, ..., N-1} only: they cover all of it, or
\* no task is stored.
C15_NoPartialCoverage ==
    planner.pc = "crashed"
    => \/ DOMAIN tasks = {}
       \/ InSomeRange = 0..(planner.n - 1)

\* C16: on an empty dataset the planner never stores a task, its loop has no
\* turn to run, and it finishes with none stored.
C16_EmptyDataset ==
    planner.n = 0
    => /\ DOMAIN tasks = {}
       /\ planner.batch = <<>>
       /\ planner.pc = "loop" => planner.i = planner.shards
       /\ planner.pc \in {"loop", "done", "crashed"}

\* The planner has returned from a run on an empty dataset.
C16_Witness ==
    /\ planner.n = 0
    /\ planner.pc = "done"
    /\ tasks = <<>>

\* Worker w is at a chunk whose blob name is already in the bucket: its
\* conditional write fails.
Collides(w) ==
    /\ pc[w] = "chunk"
    /\ BlobName(shard_id[w], w, idx[w], Hi(idx[w], end_idx[w])) \in bucket

\* C12: a worker whose conditional write fails because the blob exists goes
\* on: its next step of main takes it to the heartbeat of that chunk.
C12_CollisionNotFatal ==
    \A w \in Workers :
        Collides(w) => ENABLED (Next /\ pc'[w] = "uploaded")

\* This step is worker w calling mark_completed.
MarkStep(w) == pc[w] = "completing" /\ pc'[w] = "idle"

\* C17: every call of mark_completed leaves the task COMPLETED with
\* lease_owner and lease_expires_at null and with chunk_done, attempts,
\* start_idx and end_idx as they were, and so does a second call on what the
\* first left.
C17_MarkCompletedIdempotent ==
    [][\A w \in Workers :
          MarkStep(w)
          => LET d == tasks[shard_id[w]]
                 once == tasks'[shard_id[w]]
                 twice == CompletedUpdate(once, clock')
             IN \A r \in {once, twice} :
                   /\ r.status = "COMPLETED"
                   /\ r.lease_owner = NoOwner
                   /\ r.lease_expires_at = NoTime
                   /\ r.chunk_done = d.chunk_done
                   /\ r.attempts = d.attempts
                   /\ r.start_idx = d.start_idx
                   /\ r.end_idx = d.end_idx]_vars

\* A task with progress counted has been marked COMPLETED by one worker and
\* another worker is about to call mark_completed on it as well.
C17_Witness ==
    \E w \in Workers :
        /\ pc[w] = "completing"
        /\ tasks[shard_id[w]].status = "COMPLETED"
        /\ tasks[shard_id[w]].lease_owner = NoOwner
        /\ tasks[shard_id[w]].chunk_done > 0
        /\ tasks[shard_id[w]].attempts > 0

\* C18: a COMPLETED task has no lease owner and no lease expiry.
C18_CompletedHasNoLease ==
    \A t \in TaskIds :
        tasks[t].status = "COMPLETED"
        => /\ tasks[t].lease_owner = NoOwner
           /\ tasks[t].lease_expires_at = NoTime

\* C19: when generate_with_adaptive_bs returns, whatever turns of it met an
\* out-of-memory error, the list returned has one output for each prompt, in
\* the order of the prompts: none left out, none twice.
C19_OneOutputPerPrompt ==
    gen.pc = "returned"
    => /\ Len(gen.outputs) = gen.n
       /\ \A k \in 1..gen.n : gen.outputs[k] = k - 1

\* A call with base batch size 8 on more than four prompts met the error at
\* size 8, went on at size 4 and has returned.
C19_Witness ==
    /\ gen.pc = "returned"
    /\ gen.base_bs = 8
    /\ gen.n > 4
    /\ gen.oom_events = 1
    /\ Len(gen.outputs) = gen.n

\* This step is a turn of the loop that met the out-of-memory error.
OomStep == gen.pc = "loop" /\ gen'.oom_events = gen.oom_events + 1

\* C20: a turn that meets the error at batch size b >= 2 is followed by
\* another try from the same prompt at size max(1, b div 2); the error leaves
\* generate_with_adaptive_bs only from a turn made at batch size 1.
C20_FatalOnlyAtOne ==
    [][OomStep
       => /\ gen.bs >= 2 => /\ gen'.pc = "loop"
                            /\ gen'.i = gen.i
                            /\ gen'.bs = Max(1, gen.bs \div 2)
          /\ gen'.pc = "raised" => gen.bs = 1]_vars

\* C24: under heartbeat, claim and complete, taken in any order by any
\* worker, no step lowers the chunk_done of a task.
C24_ChunkDoneNeverDecreases ==
    [][\A t \in DOMAIN tasks : tasks'[t].chunk_done >= tasks[t].chunk_done]_vars

\* Two workers have each reported progress on one task, which one of them
\* completed: claims, heartbeats and a completion have all acted on it.
C24_Witness ==
    \E t \in DOMAIN tasks :
        /\ tasks[t].status = "COMPLETED"
        /\ tasks[t].chunk_done > 0
        /\ \E a, b \in beaten : a.task = t /\ b.task = t /\ a.worker # b.worker

\* C27: start_idx, end_idx and chunk_total of a task are what the planner
\* wrote; no step of a worker changes them.
C27_RangeFieldsFrozen ==
    [][\A t \in DOMAIN tasks :
          /\ tasks'[t].start_idx = tasks[t].start_idx
          /\ tasks'[t].end_idx = tasks[t].end_idx
          /\ tasks'[t].chunk_total = tasks[t].chunk_total]_vars

\* A task was claimed, had all its records reported and was completed, and
\* still has the range the planner gave it.
C27_Witness ==
    \E t \in DOMAIN tasks :
        /\ tasks[t].status = "COMPLETED"
        /\ tasks[t].attempts >= 1
        /\ tasks[t].chunk_done >= RangeLen(tasks[t])
        /\ tasks[t].start_idx = (t - 1) * ShardSize
        /\ tasks[t].chunk_total = CeilDiv(RangeLen(tasks[t]), ChunkSize)

\* Worker w's process ends on an error, or is gone and is started again.
FatalStep(w) == pc'[w] # pc[w] /\ (pc'[w] = "crashed" \/ pc[w] = "crashed")

\* C22: the step at which a worker dies of a fatal error, and what the dead
\* process does afterwards, writes nothing to the task store or the bucket:
\* no mark_completed, and status, lease_owner and lease_expires_at stay as
\* the last claim or heartbeat left them.
C22_FatalWritesNothing ==
    [][\A w \in Workers : FatalStep(w) => tasks' = tasks /\ bucket' = bucket]_vars

\* A worker died while it held a task: the task is still IN_PROGRESS under
\* its name.
C22_Witness ==
    \E w \in Workers, t \in DOMAIN tasks :
        /\ pc[w] = "crashed"
        /\ tasks[t].status = "IN_PROGRESS"
        /\ tasks[t].lease_owner = w
        /\ tasks[t].lease_expires_at # NoTime

\* The number of records the blobs of S hold together.
RECURSIVE Records(_)
Records(S) ==
    IF S = {} THEN 0
    ELSE LET b == CHOOSE x \in S : TRUE
         IN (b.hi - b.lo + 1) + Records(S \ {b})

\* This step is worker w leaving line 301, the heartbeat after its upload.
HeartbeatStep(w) == pc[w] = "uploaded" /\ pc'[w] \in {"chunk", "completing"}

\* This step is worker w uploading a chunk object, lines 297-299.
UploadStep(w) == pc[w] = "chunk" /\ pc'[w] = "uploaded"

\* C23: chunk_done of a task changes only in a heartbeat of a worker that
\* has just written, for that task, a chunk object not counted before, and
\* it grows by the number of records of that object; claim and complete leave
\* it alone; and it never exceeds the number of records in the chunk objects
\* written for the task.
C23_ChunkDoneFollowsWrites ==
    /\ [](\A t \in DOMAIN tasks :
             tasks[t].chunk_done <= Records({b \in bucket : b.task = t}))
    /\ [][\A t \in DOMAIN tasks :
             tasks'[t].chunk_done # tasks[t].chunk_done
             => \E w \in Workers :
                   /\ HeartbeatStep(w)
                   /\ shard_id[w] = t
                   /\ \E b \in bucket \ beaten :
                         /\ b.task = t
                         /\ b.worker = w
                         /\ b.lo = idx[w]
                         /\ tasks'[t].chunk_done
                              = tasks[t].chunk_done + (b.hi - b.lo + 1)]_vars

\* A task has had both its chunks written and reported, and for the same
\* task there is a chunk object whose writer has not reported it.
C23_Witness ==
    \E t \in DOMAIN tasks :
        /\ tasks[t].chunk_done = RangeLen(tasks[t])
        /\ Cardinality({b \in beaten : b.task = t}) >= 2
        /\ \E b \in bucket \ beaten : b.task = t

\* C25: in one pass over a task a worker writes the ranges
\* [idx, min(idx + chunk_size - 1, end_idx)]; the first idx is start_idx +
\* chunk_done as read when the pass began, every later idx is the upper bound
\* of the range before plus one, and the pass ends with the range whose upper
\* bound is end_idx.
C25_PassIsContiguous ==
    [][\A w \in Workers :
          /\ (pc[w] = "leased" /\ pc'[w] \in {"chunk", "completing"})
             => LET d == tasks[shard_id[w]]
                IN /\ idx'[w] = d.start_idx + d.chunk_done
                   /\ first'[w] = idx'[w]
                   /\ pc'[w] = "completing" <=> idx'[w] > d.end_idx
          /\ UploadStep(w)
             => LET t == shard_id[w]
                    lo == idx[w]
                    hi == IF lo + chunk_size - 1 < tasks[t].end_idx
                          THEN lo + chunk_size - 1 ELSE tasks[t].end_idx
                IN /\ bucket' \ bucket = {BlobName(t, w, lo, hi)}
                   /\ lo <= hi
                   /\ \/ lo = first[w]
                      \/ \E b \in bucket :
                            b.task = t /\ b.worker = w /\ b.hi = lo - 1
          /\ (HeartbeatStep(w) /\ pc'[w] = "completing")
             => \E b \in bucket :
                   /\ b.task = shard_id[w]
                   /\ b.worker = w
                   /\ b.lo = idx[w]
                   /\ b.hi = tasks[shard_id[w]].end_idx]_vars

\* A worker began a pass at a chunk_done above zero left by another worker
\* and wrote the rest of the range.
C25_Witness ==
    \E w \in Workers, t \in DOMAIN tasks :
        /\ pc[w] = "completing"
        /\ shard_id[w] = t
        /\ first[w] = tasks[t].start_idx + ChunkSize
        /\ BlobName(t, w, first[w], tasks[t].end_idx) \in bucket
        /\ \E v \in Workers \ {w} :
              BlobName(t, v, tasks[t].start_idx, first[w] - 1) \in beaten

\* C30: a chunk object is written once under its key (task, worker, range):
\* the bucket never loses or replaces an object, and an upload goes through
\* only under a key the bucket does not hold, the key of the uploading
\* worker, its task and its current range.
C30_ChunkObjectsWriteOnce ==
    [][/\ bucket \subseteq bucket'
       /\ bucket' # bucket => \E w \in Workers : UploadStep(w)
       /\ \A w \in Workers :
             UploadStep(w)
             => \E b \in bucket' \ bucket :
                   /\ bucket' = bucket \cup {b}
                   /\ b.task = shard_id[w]
                   /\ b.worker = w
                   /\ b.lo = idx[w]]_vars

\* A worker stands before the upload of a range it already uploaded in an
\* earlier pass under the same worker id: the key is taken.
C30_Witness ==
    \E w \in Workers :
        /\ pc[w] = "chunk"
        /\ \E b \in bucket : b.task = shard_id[w] /\ b.worker = w /\ b.lo = idx[w]

\* A task that the claim protocol should hand out now.
Unclaimed(d, now) == d.status = "PENDING" \/ DeadLease(d, now)

\* C26: when lease_one returns None and the worker exits, no task is PENDING
\* and no task is IN_PROGRESS with its lease in the past.
C26_ExitMeansNothingClaimable ==
    [][\A w \in Workers :
          (pc[w] # "exited" /\ pc'[w] = "exited")
          => \A t \in DOMAIN tasks : ~Unclaimed(tasks'[t], clock')]_vars

\* The text is a JSON object whose values are integers, and nothing else
\* but whitespace.
IsIntObject(text) ==
    LET body == NoSpace(text)
    IN /\ Len(body) = 3
       /\ body[1].kind = "lbrace"
       /\ body[2].kind = "members"
       /\ body[3].kind = "rbrace"
       /\ \A k \in Names : body[2].members[k] # JsonNull

\* No part of the text is a JSON object.
NoObject(text) ==
    \A i, j \in 1..Len(text) :
        ~ /\ i < j
          /\ text[i].kind = "lbrace"
          /\ text[j].kind = "rbrace"
          /\ LET inner == NoSpace(SubSeq(text, i + 1, j - 1))
             IN inner = <<>> \/ (Len(inner) = 1 /\ inner[1].kind = "members")

\* C29: for a text that is a JSON object with integer values parse_json
\* returns a mapping with exactly the six keys, each the value of the object
\* brought into [1,10] (1 when below 1, 10 when above 10), 1 for a key the
\* object lacks; for a text that holds no JSON object it returns null.
C29_ParseJsonClamps ==
    parse.pc = "returned"
    => /\ IsIntObject(parse.text)
          => LET obj == NoSpace(parse.text)[2].members
             IN /\ Len(parse.out) = 1
                /\ DOMAIN parse.out[1] = Keys
                /\ \A k \in Keys :
                      parse.out[1][k] =
                          IF obj[k] = Absent THEN 1
                          ELSE IF obj[k].n < 1 THEN 1
                          ELSE IF obj[k].n > 10 THEN 10
                          ELSE obj[k].n
       /\ NoObject(parse.text) => parse.out = <<>>

\* parse_json has returned for {"joy": -1, "sadness": 12}: a value below 1,
\* a value above 10 and four keys missing.
C29_Witness ==
    /\ parse.pc = "returned"
    /\ parse.text = <<Tok("lbrace"),
                      Members([NoMembers EXCEPT !["joy"] = JsonInt(-1),
                                                !["sadness"] = JsonInt(12)]),
                      Tok("rbrace")>>
    /\ parse.out = <<[joy |-> 1, sadness |-> 10, anger |-> 1, fear |-> 1,
                      love |-> 1, surprise |-> 1]>>

\* This step is the process of worker w ending because
\* generate_with_adaptive_bs raised.
RaiseStep(w) ==
    /\ pc[w] = "chunk"
    /\ annot.pc = "generating"
    /\ gen.pc = "raised"
    /\ pc'[w] = "crashed"

\* C21: when the executor raises while a chunk is processed, no chunk object
\* is written and no heartbeat is made for the chunk: from the start of the
\* chunk to the raise, and over the raise, the bucket holds no new object and
\* the task's chunk_done is what it was when the chunk was started.
C21_RaiseLeavesChunkUnwritten ==
    /\ [](\A w \in Workers :
             (pc[w] = "chunk" /\ annot.pc = "generating")
             => tasks[shard_id[w]].chunk_done = annot.before[1])
    /\ [][\A w \in Workers :
             RaiseStep(w)
             => /\ bucket' = bucket
                /\ beaten' = beaten
                /\ tasks' = tasks
                /\ tasks'[shard_id[w]].chunk_done = annot.before[1]]_vars

\* generate_with_adaptive_bs has raised for a chunk whose range has no object
\* in the bucket, after out-of-memory errors down to batch size 1, in a task
\* that has an earlier chunk written and counted.
C21_Witness ==
    \E w \in Workers :
        /\ pc[w] = "chunk"
        /\ annot.pc = "generating"
        /\ gen.pc = "raised"
        /\ gen.bs = 1
        /\ gen.oom_events >= 2
        /\ tasks[shard_id[w]].chunk_done > 0
        /\ \A b \in bucket : ~(b.task = shard_id[w] /\ b.lo = idx[w])

\* This step is annotate_batch returning to main.
ParseStep(w) == pc[w] = "chunk" /\ annot.pc = "generating" /\ annot'.pc = "returned"

C31_AttemptsCountFreshClaims ==
    /\ [](\A t \in TaskIds :
             tasks[t].attempts = IF tasks[t].status = "PENDING" THEN 0 ELSE 1)
    /\ [][\A t \in TaskIds :
             tasks'[t].attempts
               = tasks[t].attempts
                 + (IF tasks[t].status = "PENDING" /\ tasks'[t].status = "IN_PROGRESS"
                    THEN 1 ELSE 0)]_vars

\* A worker has just claimed a task that another worker held before and
\* wrote a chunk for: the claim found it IN_PROGRESS and attempts is still 1.
C31_Witness ==
    \E w \in Workers : \E t \in TaskIds :
        /\ pc[w] = "leased"
        /\ shard_id[w] = t
        /\ last_claim[t] = <<w, clock>>
        /\ tasks[t].attempts = 1
        /\ \E b \in bucket : b.task = t /\ b.worker # w

\* This step is worker w running the query of lease_one.
ScanStep(w) == pc[w] = "idle" /\ pc'[w] \in {"claiming", "exited"}

\* C32: a successful lease_one by w at time t leaves the claimed task
\* IN_PROGRESS with lease_owner w, lease_expires_at t + LEASE_MIN and
\* updated_at t. The candidates are tried in ascending updated_at order, the
\* claimed task is the first whose transaction finds it eligible, and
\* lease_one changes no other task and nothing of the tasks it passes over.
C32_ClaimsFirstEligible ==
    [][\A w \in Workers :
          /\ ScanStep(w)
             => /\ tasks' = tasks
                /\ \A i, j \in 1..Len(cands'[w]) :
                      i < j => tasks[cands'[w][i]].updated_at
                                  <= tasks[cands'[w][j]].updated_at
          /\ TxnStep(w)
             => LET t == Head(cands[w])
                IN /\ \A u \in TaskIds \ {t} : tasks'[u] = tasks[u]
                   /\ IF pc'[w] = "leased"
                      THEN /\ shard_id'[w] = t
                           /\ tasks'[t].status = "IN_PROGRESS"
                           /\ tasks'[t].lease_owner = w
                           /\ tasks'[t].lease_expires_at = <<clock + LEASE_MIN>>
                           /\ tasks'[t].updated_at = clock
                      ELSE /\ tasks'[t] = tasks[t]
                           /\ cands'[w] = Tail(cands[w])]_vars

\* Worker w holds the second task, claimed at this instant, while the first
\* task, older in the order, was claimed by the other worker at the same
\* instant: the transaction of w on the first task had found it taken.
C32_Witness ==
    \E w \in Workers : \E v \in Workers \ {w} :
        /\ clock > 0
        /\ pc[w] = "leased"
        /\ shard_id[w] = 2
        /\ last_claim[2] = <<w, clock>>
        /\ tasks[2].lease_expires_at = <<clock + LEASE_MIN>>
        /\ last_claim[1] = <<v, clock>>
        /\ tasks[1].lease_owner = v

\* C33: the transaction of lease_one claims the document it read exactly
\* when that is PENDING, or IN_PROGRESS with lease_expires_at before now; a
\* COMPLETED document is never claimed.
C33_TxnEligibility ==
    [][\A w \in Workers :
          TxnStep(w)
          => (pc'[w] = "leased" <=> Unclaimed(tasks[Head(cands[w])], clock))]_vars

\* C34: a heartbeat of worker w at time t with increment inc sets
\* lease_owner = w, lease_expires_at = t + LEASE_MIN, updated_at = t and adds
\* inc to chunk_done whatever was stored, so that heartbeats of two workers
\* on one task add up; status, attempts, start_idx, end_idx and chunk_total
\* of the task and every other task stay as they were.
C34_HeartbeatEffect ==
    [][\A w \in Workers :
          HeartbeatStep(w)
          => LET t == shard_id[w]
             IN /\ tasks'[t] = [tasks[t] EXCEPT
                                   !.lease_owner = w,
                                   !.lease_expires_at = <<clock + LEASE_MIN>>,
                                   !.updated_at = clock,
                                   !.chunk_done = @ + inc[w]]
                /\ tasks'[t].status = tasks[t].status
                /\ tasks'[t].attempts = tasks[t].attempts
                /\ \A u \in TaskIds \ {t} : tasks'[u] = tasks[u]]_vars

\* Two workers have each made the heartbeat for the same range of the same
\* task, and chunk_done holds both increments.
C34_Witness ==
    \E t \in TaskIds : \E a, b \in beaten :
        /\ a.task = t
        /\ b.task = t
        /\ a.worker # b.worker
        /\ a.lo = b.lo
        /\ tasks[t].chunk_done >= 2 * (a.hi - a.lo + 1)

\* C37: a heartbeat never moves lease_owner from one worker to another: when
\* the heartbeat of w is applied the task is IN_PROGRESS and its lease_owner
\* is w already.
C37_HeartbeatByOwnerOnly ==
    [][\A w \in Workers :
          HeartbeatStep(w)
          => /\ tasks[shard_id[w]].status = "IN_PROGRESS"
             /\ tasks[shard_id[w]].lease_owner = w]_vars

\* C38: a PENDING task has lease_owner and lease_expires_at null, chunk_done
\* 0 and attempts 0, and no step makes a task PENDING that was not.
C38_PendingIsUntouched ==
    /\ [](\A t \in TaskIds :
             tasks[t].status = "PENDING"
             => /\ tasks[t].lease_owner = NoOwner
                /\ tasks[t].lease_expires_at = NoTime
                /\ tasks[t].chunk_done = 0
                /\ tasks[t].attempts = 0)
    /\ [][\A t \in TaskIds :
             tasks'[t].status = "PENDING" => tasks[t].status = "PENDING"]_vars

\* One task is still PENDING after the other was claimed, heartbeated and
\* completed and time has moved on.
C38_Witness ==
    \E t, u \in TaskIds :
        /\ clock > 0
        /\ tasks[t].status = "PENDING"
        /\ tasks[u].status = "COMPLETED"
        /\ tasks[u].chunk_done > 0

\* C39: an IN_PROGRESS task has a lease_owner and its lease_expires_at is
\* its updated_at plus LEASE_MIN.
C39_InProgressLease ==
    \A t \in TaskIds :
        tasks[t].status = "IN_PROGRESS"
        => /\ tasks[t].lease_owner \in Workers
           /\ tasks[t].lease_expires_at = <<tasks[t].updated_at + LEASE_MIN>>

\* An IN_PROGRESS task was last written by the heartbeat of a worker that is
\* not the one that claimed it last, later than that claim.
C39_Witness ==
    \E t \in TaskIds :
        /\ tasks[t].status = "IN_PROGRESS"
        /\ last_claim[t] # <<>>
        /\ tasks[t].lease_owner # last_claim[t][1]
        /\ tasks[t].updated_at > last_claim[t][2]
        /\ tasks[t].chunk_done > 0

\* This step is a turn of the loop in which pipe succeeded.
OkStep == gen.pc = "loop" /\ gen'.pc = "loop" /\ gen'.i > gen.i

\* This step is the entry of a call of generate_with_adaptive_bs.
CallStep == gen.pc = "returned" /\ gen'.pc = "loop"

\* C35: the batch size of generate_with_adaptive_bs is always between 1 and
\* base_bs; after a success at a size below base_bs the next size is
\* min(base_bs, 2 * bs), after a success at base_bs it is base_bs; every
\* call starts at its base_bs whatever size the call before ended with.
C35_BatchSizeWithinBase ==
    /\ [](gen.pc # "idle" => 1 <= gen.bs /\ gen.bs <= gen.base_bs)
    /\ []((gen.pc = "loop" /\ gen.i = 0 /\ gen.oom_events = 0)
             => gen.bs = gen.base_bs)
    /\ [][/\ OkStep
             => gen'.bs = IF gen.bs < gen.base_bs
                          THEN (IF 2 * gen.bs < gen.base_bs
                                THEN 2 * gen.bs ELSE gen.base_bs)
                          ELSE gen.base_bs
          /\ CallStep
             => /\ gen'.bs = gen'.base_bs
                /\ gen'.i = 0
                /\ gen'.oom_events = 0]_vars

\* A call with base batch size 8 met the error at sizes 8 and 4, succeeded
\* at size 2 and then at size 4 and is back at size 8.
C35_Witness ==
    /\ gen.pc = "loop"
    /\ gen.base_bs = 8
    /\ gen.oom_events = 2
    /\ gen.i = 6
    /\ gen.bs = 8

\* This step is a batch.commit() of the planner: the one in the loop, line
\* 77, or the one after it, line 80.
LoopCommitStep ==
    /\ planner.pc = "loop"
    /\ planner'.pc = "loop"
    /\ planner'.i = planner.i + 1
    /\ planner'.batch = <<>>

LastCommitStep == planner.pc = "loop" /\ planner'.pc = "done"

\* The number of task writes of the batch committed by this step.
Committed == Cardinality(DOMAIN tasks' \ DOMAIN tasks)

\* C36: the planner commits its task writes in batches of the commit
\* interval: a batch that is followed by further task writes holds exactly
\* that many, none holds more, and a task once committed is not written
\* again.
C36_FixedSizeBatches ==
    [][/\ (LoopCommitStep /\ planner'.i < planner.shards)
             => Committed = CommitEvery
       /\ (LoopCommitStep \/ LastCommitStep) => Committed <= CommitEvery
       /\ \A t \in DOMAIN tasks : t \in DOMAIN tasks' /\ tasks'[t] = tasks[t]]_vars

\* ---------------------------------------------------------------- the scan window
\* A run of more tasks than the window of the scan holds, of one record
\* each, planned at time 0; the workers start afterwards, at time 1.
WindowTasks == ScanLimit + 1

InitWindow ==
    /\ tasks = PlanTasks(WindowTasks, 1, 1, 0)
    /\ last_claim = [t \in DOMAIN tasks |-> <<>>]
    /\ chunk_size = 1
    /\ bucket = {}
    /\ clock = 1
    /\ pc = [w \in Workers |-> "idle"]
    /\ scan_at = [w \in Workers |-> 0]
    /\ cands = [w \in Workers |-> <<>>]
    /\ snap = [w \in Workers |-> 0]
    /\ d2_done = [w \in Workers |-> 0]
    /\ shard_id = [w \in Workers |-> 0]
    /\ first = [w \in Workers |-> 0]
    /\ idx = [w \in Workers |-> 0]
    /\ end_idx = [w \in Workers |-> 0]
    /\ inc = [w \in Workers |-> 0]
    /\ prior = [w \in Workers |-> NoPrior]
    /\ beaten = {}
    /\ planner = [PlannerStart(WindowTasks, 1, 1) EXCEPT
                     !.pc = "done", !.i = WindowTasks]
    /\ gen = GenIdle
    /\ annot = AnnotIdle
    /\ parse = ParseIdle

\* One worker process at a time: nothing acts between its scan and its
\* transactions. Every process is killed at some point after its call of
\* lease_one and leaves its task behind under the lease, which is what keeps
\* more tasks unfinished than the window holds.
NextWindow ==
    \/ Tick
    \/ lease_one_scan(Healthy)
    \/ lease_one_txn(Healthy)
    \/ Crash(Healthy)
    \/ Restart(Healthy)

SpecWindow == InitWindow /\ [][NextWindow]_vars

\* This step is lease_one of worker w returning None (main exits).
NoneStep(w) == pc[w] \in {"idle", "claiming"} /\ pc'[w] = "exited"

\* C40: with one clock, one LEASE_MIN, the plan written before any worker
\* starts and nothing acting between the scan and the transactions, lease_one
\* returns None only when no task of the run is PENDING or IN_PROGRESS under
\* an expired lease, also with more unfinished tasks than the window of the
\* scan holds: every such task comes before every unfinished task under a
\* live lease in the order of the scan.
C40_WindowSuffices ==
    /\ [](\A a \in Unfinished : \A b \in Unfinished :
             (Unclaimed(tasks[a], clock) /\ ~Unclaimed(tasks[b], clock))
             => Before(a, b))
    /\ [][\A w \in Workers :
             NoneStep(w) => \A t \in TaskIds : ~Unclaimed(tasks[t], clock)]_vars

\* lease_one has returned None while more tasks than the window holds are
\* unfinished, all of them under leases that have not expired, taken at
\* different times.
C40_Witness ==
    /\ pc[Healthy] = "exited"
    /\ Cardinality(Unfinished) > ScanLimit
    /\ \A t \in Unfinished : ~Unclaimed(tasks[t], clock)
    /\ \E a \in Unfinished : \E b \in Unfinished :
          tasks[a].updated_at < tasks[b].updated_at

\* C11: with one worker healthy in the end, time going on and that worker
\* scheduled fairly, every task of the run is COMPLETED at some time.
C11_EveryTaskCompleted ==
    \A t \in 1..CeilDiv(DatasetLen, ShardSize) : <>(tasks[t].status = "COMPLETED")

====
